---- MODULE Spec2Model ----
(***************************************************************************)
(* A model of the Markdown-to-HTML pipeline of Static_site_generator:      *)
(* the inline splitter (src/src/inline_markdown.py), the block classifier  *)
(* and the document converter (src/src/markdown_blocks.py), and the HTML   *)
(* nodes (src/src/htmlnode.py, src/src/textnode.py).                       *)
(*                                                                         *)
(* A Python str is a sequence of one-character strings, so that split,     *)
(* startswith and the regular expressions are computed character by        *)
(* character.  A TextNode is a record [text, text_type, url]; url is       *)
(* NoUrl (Python's None) or Url(u).  A call that raises returns a result   *)
(* with a non-empty error and no value.                                    *)
(***************************************************************************)
EXTENDS Integers, Sequences, FiniteSets, TLC

VARIABLES text, nodes, old_nodes, op, error, matches, block, block_type,
          markdown, blocks, html_node, html, args

vars == <<text, nodes, old_nodes, op, error, matches, block, block_type,
          markdown, blocks, html_node, html, args>>

\* the variables of the document converter and of the HTML nodes
docVars == <<markdown, blocks, html_node, html, args>>

(***************************************************************************)
(* Bounds of the model.                                                    *)
(***************************************************************************)
\* number of tokens an input text is built from
MaxTokens == 3
\* number of tokens an input block is built from
MaxBlockTokens == 3
\* number of tokens an input document is built from
MaxDocTokens == 3
\* height of the trees of HTML nodes
MaxDepth == 2

(***************************************************************************)
(* Python str and list primitives.                                         *)
(***************************************************************************)
\* s[i:] with a 0-based i, for 0 <= i
DropFirst(s, i) == SubSeq(s, i + 1, Len(s))

\* s.startswith(p)
StartsWith(s, p) == Len(s) >= Len(p) /\ SubSeq(s, 1, Len(p)) = p

\* 1-based index of the first occurrence of p in s, 0 when there is none
Find(s, p) ==
    LET hits == {i \in 1..(Len(s) - Len(p) + 1) : SubSeq(s, i, i + Len(p) - 1) = p}
    IN  IF hits = {} THEN 0 ELSE CHOOSE i \in hits : \A j \in hits : i <= j

\* s.split(d) for a non-empty d: every non-overlapping occurrence, left to right
RECURSIVE Split(_, _)
Split(s, d) ==
    LET i == Find(s, d)
    IN  IF i = 0 THEN <<s>>
        ELSE <<SubSeq(s, 1, i - 1)>> \o Split(DropFirst(s, i - 1 + Len(d)), d)

\* s.split(d, 1)
SplitOnce(s, d) ==
    LET i == Find(s, d)
    IN  IF i = 0 THEN <<s>>
        ELSE <<SubSeq(s, 1, i - 1), DropFirst(s, i - 1 + Len(d))>>

\* "".join(parts)
RECURSIVE Concat(_)
Concat(parts) ==
    IF parts = <<>> THEN <<>> ELSE Head(parts) \o Concat(Tail(parts))

(***************************************************************************)
(* textnode.py                                                             *)
(***************************************************************************)
TEXT == "text"
BOLD == "bold"
ITALIC == "italic"
CODE == "code"
LINK == "link"
IMAGE == "image"

TextType == {TEXT, BOLD, ITALIC, CODE, LINK, IMAGE}

NoUrl == <<>>
Url(u) == <<u>>

\* TextNode(text, text_type, url=None)
TextNode(t, tt, u) == [text |-> t, text_type |-> tt, url |-> u]

(***************************************************************************)
(* Results of a call: the returned value, or the error raised.             *)
(***************************************************************************)
Return(v) == [error |-> "", value |-> v]
Raise(e) == [error |-> e, value |-> <<>>]

UnmatchedDelimiter == "Invalid markdown: Unmatched delimiter found"
MalformedPattern == "Invalid markdown: incomplete or malformed pattern"

(***************************************************************************)
(* inline_markdown.py: split_nodes_delimiter                               *)
(***************************************************************************)
\* SectionNodes without the test of an empty section
RECURSIVE SectionNodesKeepEmpty(_, _, _)
SectionNodesKeepEmpty(sections, index, text_type) ==
    IF index >= Len(sections) THEN <<>>
    ELSE LET section == sections[index + 1]
             rest == SectionNodesKeepEmpty(sections, index + 1, text_type)
         IN  IF index % 2 = 0
             THEN <<TextNode(section, TEXT, NoUrl)>> \o rest
             ELSE <<TextNode(section, text_type, NoUrl)>> \o rest

\* SectionNodes taking the odd indices for the plain text
RECURSIVE SectionNodesSwapped(_, _, _)
SectionNodesSwapped(sections, index, text_type) ==
    IF index >= Len(sections) THEN <<>>
    ELSE LET section == sections[index + 1]
             rest == SectionNodesSwapped(sections, index + 1, text_type)
         IN  IF section # <<>>
             THEN IF index % 2 = 1
                  THEN <<TextNode(section, TEXT, NoUrl)>> \o rest
                  ELSE <<TextNode(section, text_type, NoUrl)>> \o rest
             ELSE rest

\* the loop over enumerate(sections): one node per non-empty section
RECURSIVE SectionNodes(_, _, _)
SectionNodes(sections, index, text_type) ==
    IF index >= Len(sections) THEN <<>>
    ELSE LET section == sections[index + 1]
             rest == SectionNodes(sections, index + 1, text_type)
         IN  IF section # <<>>
             THEN IF index % 2 = 0
                  THEN <<TextNode(section, TEXT, NoUrl)>> \o rest
                  ELSE <<TextNode(section, text_type, NoUrl)>> \o rest
             ELSE rest

\* DelimiterLoop inserting each node's sections at the front of new_nodes
RECURSIVE DelimiterLoopPrepend(_, _, _, _)
DelimiterLoopPrepend(old, new_nodes, delimiter, text_type) ==
    IF old = <<>> THEN Return(new_nodes)
    ELSE LET node == Head(old)
         IN  IF node.text_type # TEXT
             THEN DelimiterLoopPrepend(Tail(old), <<node>> \o new_nodes, delimiter, text_type)
             ELSE LET sections == Split(node.text, delimiter)
                  IN  IF Len(sections) % 2 = 0
                      THEN Raise(UnmatchedDelimiter)
                      ELSE DelimiterLoopPrepend(Tail(old),
                                                SectionNodes(sections, 0, text_type) \o new_nodes,
                                                delimiter, text_type)

\* DelimiterLoop raising only for exactly two sections
RECURSIVE DelimiterLoopOnlyTwo(_, _, _, _)
DelimiterLoopOnlyTwo(old, new_nodes, delimiter, text_type) ==
    IF old = <<>> THEN Return(new_nodes)
    ELSE LET node == Head(old)
         IN  IF node.text_type # TEXT
             THEN DelimiterLoopOnlyTwo(Tail(old), Append(new_nodes, node), delimiter, text_type)
             ELSE LET sections == Split(node.text, delimiter)
                  IN  IF Len(sections) = 2
                      THEN Raise(UnmatchedDelimiter)
                      ELSE DelimiterLoopOnlyTwo(Tail(old),
                                                new_nodes \o SectionNodes(sections, 0, text_type),
                                                delimiter, text_type)

\* DelimiterLoop keeping a node with an unmatched delimiter as it is
RECURSIVE DelimiterLoopNoRaise(_, _, _, _)
DelimiterLoopNoRaise(old, new_nodes, delimiter, text_type) ==
    IF old = <<>> THEN Return(new_nodes)
    ELSE LET node == Head(old)
         IN  IF node.text_type # TEXT
             THEN DelimiterLoopNoRaise(Tail(old), Append(new_nodes, node), delimiter, text_type)
             ELSE LET sections == Split(node.text, delimiter)
                  IN  IF Len(sections) % 2 = 0
                      THEN DelimiterLoopNoRaise(Tail(old), Append(new_nodes, node),
                                                delimiter, text_type)
                      ELSE DelimiterLoopNoRaise(Tail(old),
                                                new_nodes \o SectionNodes(sections, 0, text_type),
                                                delimiter, text_type)

\* the loop over old_nodes, new_nodes being the list built so far
RECURSIVE DelimiterLoop(_, _, _, _)
DelimiterLoop(old, new_nodes, delimiter, text_type) ==
    IF old = <<>> THEN Return(new_nodes)
    ELSE LET node == Head(old)
         IN  IF node.text_type # TEXT
             THEN DelimiterLoop(Tail(old), Append(new_nodes, node), delimiter, text_type)
             ELSE LET sections == Split(node.text, delimiter)
                  IN  IF Len(sections) % 2 = 0
                      THEN Raise(UnmatchedDelimiter)
                      ELSE DelimiterLoop(Tail(old),
                                         new_nodes \o SectionNodes(sections, 0, text_type),
                                         delimiter, text_type)

split_nodes_delimiter(nodes_in, delimiter, text_type) ==
    DelimiterLoop(nodes_in, <<>>, delimiter, text_type)

(***************************************************************************)
(* inline_markdown.py: the two regular expressions                         *)
(***************************************************************************)
\* the longest run [^xy]* starting at 1-based position i: the position after it
RECURSIVE RunEnd(_, _, _)
RunEnd(s, i, excluded) ==
    IF i <= Len(s) /\ s[i] \notin excluded THEN RunEnd(s, i + 1, excluded) ELSE i

\* \[([^\[\]]*)\]\(([^\(\)]*)\) matched at position i: the match, or stop = 0.
\* Each class excludes the character that must follow it, so the greedy run
\* is the only way to match.
BracketMatch(s, i) ==
    LET t == RunEnd(s, i + 1, {"[", "]"})
        u == RunEnd(s, t + 2, {"(", ")"})
    IN  IF /\ i <= Len(s) /\ s[i] = "["
           /\ t + 1 <= Len(s) /\ s[t] = "]" /\ s[t + 1] = "("
           /\ u <= Len(s) /\ s[u] = ")"
        THEN [stop |-> u + 1, text |-> SubSeq(s, i + 1, t - 1), url |-> SubSeq(s, t + 2, u - 1)]
        ELSE [stop |-> 0, text |-> <<>>, url |-> <<>>]

\* r"!\[([^\[\]]*)\]\(([^\(\)]*)\)" at position i
ImageMatch(s, i) ==
    IF i <= Len(s) /\ s[i] = "!"
    THEN BracketMatch(s, i + 1)
    ELSE [stop |-> 0, text |-> <<>>, url |-> <<>>]

\* LinkMatch without the lookbehind (?<!!)
LinkMatchNoLookbehind(s, i) == BracketMatch(s, i)

\* r"(?<!!)\[([^\[\]]*)\]\(([^\(\)]*)\)" at position i
LinkMatch(s, i) ==
    IF i > 1 /\ s[i - 1] = "!"
    THEN [stop |-> 0, text |-> <<>>, url |-> <<>>]
    ELSE BracketMatch(s, i)

\* re.findall: scan from i, a match resumes the scan after itself.  Each entry
\* keeps the position of its match beside the (text, url) tuple.
RECURSIVE FindAll(_, _, _)
FindAll(s, i, node_type) ==
    IF i > Len(s) THEN <<>>
    ELSE LET m == IF node_type = IMAGE THEN ImageMatch(s, i) ELSE LinkMatch(s, i)
         IN  IF m.stop = 0 THEN FindAll(s, i + 1, node_type)
             ELSE <<[pos |-> i, stop |-> m.stop, text |-> m.text, url |-> m.url]>>
                  \o FindAll(s, m.stop, node_type)

\* the list of (text, url) tuples findall returns
Tuples(ms) == [k \in 1..Len(ms) |-> <<ms[k].text, ms[k].url>>]

extract_markdown_images(s) == Tuples(FindAll(s, 1, IMAGE))

extract_markdown_links(s) == Tuples(FindAll(s, 1, LINK))

\* the literal with the "!" put before a link and not before an image
PatternMarkdownBangOnLink(content_text, url, node_type) ==
    (IF node_type = LINK THEN <<"!">> ELSE <<>>)
        \o <<"[">> \o content_text \o <<"]", "(">> \o url \o <<")">>

(***************************************************************************)
(* inline_markdown.py: split_nodes_by_markdown_pattern                     *)
(***************************************************************************)
\* f"{prefix}[{content_text}]({url})"
PatternMarkdown(content_text, url, node_type) ==
    (IF node_type = IMAGE THEN <<"!">> ELSE <<>>)
        \o <<"[">> \o content_text \o <<"]", "(">> \o url \o <<")">>

\* the loop over patterns for one node, then the text that remains
RECURSIVE PatternLoop(_, _, _, _)
PatternLoop(original_text, patterns, new_nodes, node_type) ==
    IF patterns = <<>>
    THEN Return(IF original_text # <<>>
                THEN Append(new_nodes, TextNode(original_text, TEXT, NoUrl))
                ELSE new_nodes)
    ELSE LET content_text == Head(patterns)[1]
             url == Head(patterns)[2]
             sections == SplitOnce(original_text, PatternMarkdown(content_text, url, node_type))
         IN  IF Len(sections) # 2
             THEN Raise(MalformedPattern)
             ELSE LET before_text == sections[1]
                      with_before == IF before_text # <<>>
                                     THEN Append(new_nodes, TextNode(before_text, TEXT, NoUrl))
                                     ELSE new_nodes
                  IN  PatternLoop(sections[2], Tail(patterns),
                                  Append(with_before, TextNode(content_text, node_type, Url(url))),
                                  node_type)

\* extractor_func(text), the function being passed by its name
CallExtractor(extractor_func, s) ==
    IF extractor_func = "extract_markdown_images"
    THEN extract_markdown_images(s)
    ELSE extract_markdown_links(s)

\* PatternNodeLoop without the test of the node's type
RECURSIVE PatternNodeLoopAnyType(_, _, _, _)
PatternNodeLoopAnyType(old, new_nodes, extractor_func, node_type) ==
    IF old = <<>> THEN Return(new_nodes)
    ELSE LET old_node == Head(old)
             patterns == CallExtractor(extractor_func, old_node.text)
         IN  IF patterns = <<>>
             THEN PatternNodeLoopAnyType(Tail(old), Append(new_nodes, old_node),
                                         extractor_func, node_type)
             ELSE LET r == PatternLoop(old_node.text, patterns, new_nodes, node_type)
                  IN  IF r.error # "" THEN r
                      ELSE PatternNodeLoopAnyType(Tail(old), r.value,
                                                  extractor_func, node_type)

\* the loop over old_nodes, new_nodes being the list built so far
RECURSIVE PatternNodeLoop(_, _, _, _)
PatternNodeLoop(old, new_nodes, extractor_func, node_type) ==
    IF old = <<>> THEN Return(new_nodes)
    ELSE LET old_node == Head(old)
         IN  IF old_node.text_type # TEXT
             THEN PatternNodeLoop(Tail(old), Append(new_nodes, old_node),
                                  extractor_func, node_type)
             ELSE LET patterns == CallExtractor(extractor_func, old_node.text)
                  IN  IF patterns = <<>>
                      THEN PatternNodeLoop(Tail(old), Append(new_nodes, old_node),
                                           extractor_func, node_type)
                      ELSE LET r == PatternLoop(old_node.text, patterns, new_nodes, node_type)
                           IN  IF r.error # "" THEN r
                               ELSE PatternNodeLoop(Tail(old), r.value,
                                                    extractor_func, node_type)

split_nodes_by_markdown_pattern(nodes_in, extractor_func, node_type) ==
    PatternNodeLoop(nodes_in, <<>>, extractor_func, node_type)

split_nodes_image(nodes_in) ==
    split_nodes_by_markdown_pattern(nodes_in, "extract_markdown_images", IMAGE)

split_nodes_link(nodes_in) ==
    split_nodes_by_markdown_pattern(nodes_in, "extract_markdown_links", LINK)

(***************************************************************************)
(* inline_markdown.py: text_to_textnodes.  The function is imported by     *)
(* markdown_blocks.py and by the tests, and its body is not in the source  *)
(* tree; it is modelled from the specification's section 4.3: the five     *)
(* stages in a fixed order, each given the list the previous one returned, *)
(* an error of a stage ending the call.                                    *)
(***************************************************************************)
BoldDelimiter == <<"*", "*">>
ItalicDelimiter == <<"_">>
\* the backtick, which a TLA+ string cannot hold
Backtick == "BACKTICK"

CodeDelimiter == <<Backtick>>

\* one stage on what the stage before returned: an exception goes through
DelimiterStage(r, delimiter, text_type) ==
    IF r.error # "" THEN r ELSE split_nodes_delimiter(r.value, delimiter, text_type)

ImageStage(r) == IF r.error # "" THEN r ELSE split_nodes_image(r.value)

LinkStage(r) == IF r.error # "" THEN r ELSE split_nodes_link(r.value)

text_to_textnodes(t) ==
    LinkStage(ImageStage(
        DelimiterStage(
            DelimiterStage(
                split_nodes_delimiter(<<TextNode(t, TEXT, NoUrl)>>, BoldDelimiter, BOLD),
                ItalicDelimiter, ITALIC),
            CodeDelimiter, CODE)))

(***************************************************************************)
(* The inputs: a text is the concatenation of at most MaxTokens tokens,    *)
(* each a markdown character, a bold delimiter or a whole link; to these   *)
(* are added the inputs of the repository's tests with their words cut to  *)
(* one letter.                                                             *)
(***************************************************************************)
LinkToken == <<"[", "a", "]", "(", "b", ")">>

Tokens ==
    {<<"a">>, <<"*">>, <<"_">>, <<Backtick>>, <<"!">>, <<"[">>, <<"]">>, <<"(">>, <<")">>,
     BoldDelimiter, LinkToken}

TokenTexts == {Concat(ts) : ts \in UNION {[1..n -> Tokens] : n \in 0..MaxTokens}}

\* test_text_to_textnodes: "This is **text** with an _italic_ word and a
\* (code block) and an ![image](...) and a [link](...)"
TestTextAll ==
    <<"a", "*", "*", "b", "*", "*", "a", "_", "i", "_", "a", Backtick, "c", Backtick, "a",
      "!", "[", "g", "]", "(", "u", ")", "a", "[", "l", "]", "(", "v", ")">>

\* test_text_to_textnodes_nested_elements: "This is **bold with a [link](...) inside**"
TestTextNested ==
    <<"a", "*", "*", "b", "[", "l", "]", "(", "v", ")", "c", "*", "*">>

\* test_delim_nested: "This is **bold and _italic_** text"
TestTextDelimNested ==
    <<"a", "*", "*", "b", "_", "i", "_", "*", "*", "c">>

\* test_split_multiple_links: "... [link](u) and [another link](v) with text that follows"
TestTextLinks ==
    <<"a", "[", "l", "]", "(", "u", ")", "b", "[", "m", "]", "(", "v", ")", "c">>

TestTexts == {TestTextAll, TestTextNested, TestTextDelimNested, TestTextLinks}

\* a balanced TEXT node, a link, then an unbalanced TEXT node: "_a_[l](u)_"
CaseTextUnbalancedLater == <<"_", "a", "_", "[", "l", "]", "(", "u", ")", "_">>

\* a link or an image, alone or before a letter, whose text and url are at
\* most two characters among a letter and the delimiter characters
PatternTexts ==
    LET Parts == UNION {[1..n -> {"a", "_", "*", Backtick}] : n \in 0..2}
    IN  {bang \o <<"[">> \o t \o <<"]", "(">> \o u \o <<")">> \o rest :
            bang \in {<<>>, <<"!">>}, t \in Parts, u \in Parts, rest \in {<<>>, <<"a">>}}

Texts == TokenTexts \cup TestTexts \cup {CaseTextUnbalancedLater} \cup PatternTexts

(***************************************************************************)
(* The inline splitter as a state machine: a raw text is wrapped in one    *)
(* TEXT node, and every step is one whole call of a function of            *)
(* inline_markdown.py on the current list.  old_nodes is the argument of   *)
(* the last call, op the call, error the exception it raised.  A call that *)
(* raises returns no list, and the caller goes no further.                 *)
(***************************************************************************)
NoOp == [name |-> "none", delimiter |-> <<>>, text_type |-> TEXT]

DelimiterStages ==
    {<<BoldDelimiter, BOLD>>, <<ItalicDelimiter, ITALIC>>, <<CodeDelimiter, CODE>>}

Init ==
    /\ text \in Texts
    /\ nodes = <<TextNode(text, TEXT, NoUrl)>>
    /\ old_nodes = <<>>
    /\ op = NoOp
    /\ error = ""
    /\ matches = <<>>
    /\ block = <<>>
    /\ block_type = "none"
    /\ markdown = <<>>
    /\ blocks = <<>>
    /\ html_node = <<>>
    /\ html = <<>>
    /\ args = <<>>

\* the effect of a call that was given the current list and ended with r
Finish(call, r) ==
    /\ op' = call
    /\ old_nodes' = nodes
    /\ error' = r.error
    /\ nodes' = IF r.error # "" THEN <<>> ELSE r.value
    /\ UNCHANGED <<text, matches, block, block_type, docVars>>

\* extract_markdown_images(text) and extract_markdown_links(text) on the raw text
CallExtractMarkdownImages ==
    /\ op = NoOp
    /\ op' = [name |-> "extract_markdown_images", delimiter |-> <<>>, text_type |-> IMAGE]
    /\ matches' = extract_markdown_images(text)
    /\ UNCHANGED <<text, nodes, old_nodes, error, block, block_type, docVars>>

CallExtractMarkdownLinks ==
    /\ op = NoOp
    /\ op' = [name |-> "extract_markdown_links", delimiter |-> <<>>, text_type |-> LINK]
    /\ matches' = extract_markdown_links(text)
    /\ UNCHANGED <<text, nodes, old_nodes, error, block, block_type, docVars>>

SplitOps == {"none", "split_nodes_delimiter", "split_nodes_image", "split_nodes_link"}

CallSplitNodesDelimiter ==
    /\ error = ""
    /\ op.name \in SplitOps
    /\ \E stage \in DelimiterStages :
          Finish([name |-> "split_nodes_delimiter", delimiter |-> stage[1],
                  text_type |-> stage[2]],
                 split_nodes_delimiter(nodes, stage[1], stage[2]))

CallSplitNodesImage ==
    /\ error = ""
    /\ op.name \in SplitOps
    /\ Finish([name |-> "split_nodes_image", delimiter |-> <<>>, text_type |-> IMAGE],
              split_nodes_image(nodes))

CallSplitNodesLink ==
    /\ error = ""
    /\ op.name \in SplitOps
    /\ Finish([name |-> "split_nodes_link", delimiter |-> <<>>, text_type |-> LINK],
              split_nodes_link(nodes))

CallTextToTextnodes ==
    /\ op = NoOp
    /\ Finish([name |-> "text_to_textnodes", delimiter |-> <<>>, text_type |-> TEXT],
              text_to_textnodes(text))

Next ==
    \/ CallExtractMarkdownImages
    \/ CallExtractMarkdownLinks
    \/ CallSplitNodesDelimiter
    \/ CallSplitNodesImage
    \/ CallSplitNodesLink
    \/ CallTextToTextnodes

Spec == Init /\ [][Next]_vars

(***************************************************************************)
(* markdown_blocks.py: block_to_block_type                                 *)
(***************************************************************************)
PARAGRAPH == "paragraph"
HEADING == "heading"
CODE_BLOCK == "code"
QUOTE == "quote"
OLIST == "ordered_list"
ULIST == "unordered_list"

BlockType == {PARAGRAPH, HEADING, CODE_BLOCK, QUOTE, OLIST, ULIST}

Newline == <<"\n">>
Fence == <<Backtick, Backtick, Backtick>>

\* str(n) for n >= 0
RECURSIVE Decimal(_)
Decimal(n) ==
    LET digit == <<"0", "1", "2", "3", "4", "5", "6", "7", "8", "9">>[(n % 10) + 1]
    IN  IF n < 10 THEN <<digit>> ELSE Decimal(n \div 10) \o <<digit>>

\* the heading prefixes and the marker of a list item besides
HeadingPrefixesWithDash ==
    {[k \in 1..(n + 1) |-> IF k <= n THEN "#" ELSE " "] : n \in 1..6} \cup {<<"-", " ">>}

\* the tuple ("# ", "## ", "### ", "#### ", "##### ", "###### ")
HeadingPrefixes ==
    {[k \in 1..(n + 1) |-> IF k <= n THEN "#" ELSE " "] : n \in 1..6}

\* InSequence without the expected number: any of 1 to 9 before the ". "
InSequenceAnyNumber(lines) ==
    \A k \in 1..Len(lines) :
        \E n \in 1..9 : StartsWith(lines[k], Decimal(n) \o <<".", " ">>)

\* the for/else over enumerate(lines, start=1): no line breaks the sequence
InSequence(lines) ==
    \A k \in 1..Len(lines) : StartsWith(lines[k], Decimal(k) \o <<".", " ">>)

block_to_block_type(b) ==
    LET lines == Split(b, Newline)
    IN  IF \E prefix \in HeadingPrefixes : StartsWith(b, prefix)
        THEN HEADING
        ELSE IF /\ Len(lines) >= 2
                /\ StartsWith(lines[1], Fence)
                /\ StartsWith(lines[Len(lines)], Fence)
        THEN CODE_BLOCK
        ELSE IF \A k \in 1..Len(lines) : StartsWith(lines[k], <<">">>)
        THEN QUOTE
        ELSE IF \A k \in 1..Len(lines) : StartsWith(lines[k], <<"-", " ">>)
        THEN ULIST
        ELSE IF StartsWith(lines[1], <<"1", ".", " ">>) /\ InSequence(lines)
        THEN OLIST
        ELSE PARAGRAPH

(***************************************************************************)
(* The inputs of the classifier: a block is the concatenation of at most   *)
(* MaxBlockTokens tokens, each a marker or a character; to these are added *)
(* the blocks of the repository's tests with their words cut to one letter.*)
(***************************************************************************)
SixHashes == <<"#", "#", "#", "#", "#", "#">>

BlockTokens ==
    {<<"#">>, SixHashes, <<" ">>, Newline, Fence, <<">">>, <<"-", " ">>,
     <<"1", ".", " ">>, <<"2", ".", " ">>, <<"3", ".", " ">>, <<"x">>}

TokenBlocks ==
    {Concat(ts) : ts \in UNION {[1..n -> BlockTokens] : n \in 0..MaxBlockTokens}}

\* "1. x\n2. y"
TestBlockOrdered == <<"1", ".", " ", "x", "\n", "2", ".", " ", "y">>
\* "1. x\n3. y"
TestBlockGap == <<"1", ".", " ", "x", "\n", "3", ".", " ", "y">>
\* "1.No space after period"
TestBlockNoSpace == <<"1", ".", "x">>
\* "# \nHeading with newline"
TestBlockHeadingNewline == <<"#", " ", "\n", "x", " ", "y">>
\* "####### Too many hash symbols"
TestBlockSevenHashes == <<"#", "#", "#", "#", "#", "#", "#", " ", "x", " ", "y">>
\* a fence with a language and two lines of code
TestBlockCode ==
    Fence \o <<"x", "\n", "y", " ", "y", "\n", " ", "y", "\n">> \o Fence
\* "> Multi-line\n> quote block"
TestBlockQuote == <<">", " ", "x", "\n", ">", " ", "y">>
\* "- Item 1\n- Item 2\n- Item 3"
TestBlockUnordered ==
    <<"-", " ", "x", "\n", "-", " ", "y", "\n", "-", " ", "z">>

\* ">> x\n> y": a quote line that begins with two markers
CaseBlockNestedQuote == <<">", ">", " ", "x", "\n", ">", " ", "y">>

\* "1. x\n2. x\n ... \n10. x": an ordered list of ten items
CaseBlockTenItems ==
    Concat([k \in 1..10 |->
               (IF k = 1 THEN <<>> ELSE Newline) \o Decimal(k) \o <<".", " ", "x">>])

\* "- x\n- _y\n- z": a list whose second item has an unmatched delimiter
CaseBlockItemUnmatched ==
    <<"-", " ", "x", "\n", "-", " ", "_", "y", "\n", "-", " ", "z">>

TestBlocks ==
    {TestBlockOrdered, TestBlockGap, TestBlockNoSpace, TestBlockHeadingNewline,
     TestBlockSevenHashes, TestBlockCode, TestBlockQuote, TestBlockUnordered,
     CaseBlockNestedQuote, CaseBlockTenItems, CaseBlockItemUnmatched}

Blocks == TokenBlocks \cup TestBlocks

(***************************************************************************)
(* More Python str primitives.                                             *)
(***************************************************************************)
\* s.endswith(p)
EndsWith(s, p) ==
    Len(s) >= Len(p) /\ SubSeq(s, Len(s) - Len(p) + 1, Len(s)) = p

\* the characters str.strip() removes, as far as the inputs have them
Whitespace == {" ", "\n", "\t", "\r"}

\* s.lstrip(chars) and s.rstrip(chars): every leading, every trailing one
RECURSIVE LStrip(_, _)
LStrip(s, chars) ==
    IF s # <<>> /\ Head(s) \in chars THEN LStrip(Tail(s), chars) ELSE s

RECURSIVE RStrip(_, _)
RStrip(s, chars) ==
    IF s # <<>> /\ s[Len(s)] \in chars
    THEN RStrip(SubSeq(s, 1, Len(s) - 1), chars)
    ELSE s

\* s.strip()
Strip(s) == RStrip(LStrip(s, Whitespace), Whitespace)

\* s[i:j] for 0 <= i and a negative j, written as its distance from the end
SliceFromTo(s, i, fromEnd) ==
    IF i + 1 > Len(s) - fromEnd THEN <<>> ELSE SubSeq(s, i + 1, Len(s) - fromEnd)

\* sep.join(parts)
RECURSIVE Join(_, _)
Join(parts, sep) ==
    IF parts = <<>> THEN <<>>
    ELSE IF Len(parts) = 1 THEN parts[1]
    ELSE parts[1] \o sep \o Join(Tail(parts), sep)

(***************************************************************************)
(* htmlnode.py.  A field that may hold Python's None is None or Some(v).   *)
(* A node is a record [class, tag, value, children, props]; props is a     *)
(* dict, written as the sequence of its <<key, value>> pairs in insertion  *)
(* order.  to_html returns the Python object the method returns: Some(s)   *)
(* for a str, None for None.                                               *)
(***************************************************************************)
None == <<>>
Some(v) == <<v>>

NoValue == "invalid HTML: no value"
NoTag == "invalid HTML: no tag"
NoChildren == "invalid HTML: no children"
NotImplemented == "to_html method not implemented"
\* iterating None, or adding None to a str
TypeError == "TypeError"

\* HTMLNode(tag, value, children, props)
HTMLNode(tag, value, children, props) ==
    [class |-> "HTMLNode", tag |-> tag, value |-> value,
     children |-> children, props |-> props]

\* LeafNode without the check of the value
LeafNodeUnchecked(tag, value, props) ==
    Return([HTMLNode(tag, value, None, props) EXCEPT !.class = "LeafNode"])

\* LeafNode(tag, value, props)
LeafNode(tag, value, props) ==
    IF value = None THEN Raise(NoValue)
    ELSE Return([HTMLNode(tag, value, None, props) EXCEPT !.class = "LeafNode"])

\* ParentNode(tag, children, props)
ParentNode(tag, children, props) ==
    IF tag = None THEN Raise(NoTag)
    ELSE IF children = None THEN Raise(NoChildren)
    ELSE Return([HTMLNode(tag, None, children, props) EXCEPT !.class = "ParentNode"])

\* what an f-string makes of a field
Str(v) == IF v = None THEN <<"N", "o", "n", "e">> ELSE v[1]

\* one attribute of props_to_html
PropHtml(key, value) == <<" ">> \o key \o <<"=", "\"">> \o Str(value) \o <<"\"">>

\* props_to_html with the attributes in reverse order
props_to_html_reversed(props) ==
    IF props = None \/ props[1] = <<>> THEN <<>>
    ELSE LET n == Len(props[1])
         IN  Concat([k \in 1..n |->
                        PropHtml(props[1][n + 1 - k][1], props[1][n + 1 - k][2])])

\* node.props_to_html()
props_to_html(props) ==
    IF props = None \/ props[1] = <<>> THEN <<>>
    ELSE Concat([k \in 1..Len(props[1]) |-> PropHtml(props[1][k][1], props[1][k][2])])

\* "<tag props>content</tag>"
Element(tag, props, content) ==
    <<"<">> \o Str(tag) \o props_to_html(props) \o <<">">> \o content
        \o <<"<", "/">> \o Str(tag) \o <<">">>

RECURSIVE to_html(_)
RECURSIVE ChildrenToHtml(_, _)

\* the loop of ParentNode.to_html over the children not yet serialized
ChildrenToHtml(children, html_content) ==
    IF children = <<>> THEN Return(Some(html_content))
    ELSE LET r == to_html(Head(children))
         IN  IF r.error # "" THEN r
             ELSE IF r.value = None THEN Raise(TypeError)
             ELSE ChildrenToHtml(Tail(children), html_content \o r.value[1])

\* node.to_html()
to_html(node) ==
    IF node.class = "LeafNode"
    THEN IF node.tag = None \/ node.tag = Some(<<>>)
         THEN Return(node.value)
         ELSE Return(Some(Element(node.tag, node.props, Str(node.value))))
    ELSE IF node.class = "ParentNode"
    THEN IF node.children = None THEN Raise(TypeError)
         ELSE LET r == ChildrenToHtml(node.children[1], <<>>)
              IN  IF r.error # "" THEN r
                  ELSE Return(Some(Element(node.tag, node.props, r.value[1])))
    ELSE Raise(NotImplemented)

(***************************************************************************)
(* textnode.py: text_node_to_html_node                                     *)
(***************************************************************************)
InvalidTextType == "invalid text type"

\* text_node_to_html_node with the attributes of an image in the other order
text_node_to_html_node_alt_first(text_node) ==
    IF text_node.text_type = TEXT THEN LeafNode(None, Some(text_node.text), None)
    ELSE IF text_node.text_type = BOLD
    THEN LeafNode(Some(<<"b">>), Some(text_node.text), None)
    ELSE IF text_node.text_type = ITALIC
    THEN LeafNode(Some(<<"i">>), Some(text_node.text), None)
    ELSE IF text_node.text_type = CODE
    THEN LeafNode(Some(<<"c", "o", "d", "e">>), Some(text_node.text), None)
    ELSE IF text_node.text_type = LINK
    THEN LeafNode(Some(<<"a">>), Some(text_node.text),
                  Some(<< <<(<<"h", "r", "e", "f">>), text_node.url>> >>))
    ELSE IF text_node.text_type = IMAGE
    THEN LeafNode(Some(<<"i", "m", "g">>), Some(<<>>),
                  Some(<< <<(<<"a", "l", "t">>), Some(text_node.text)>>,
                          <<(<<"s", "r", "c">>), text_node.url>> >>))
    ELSE Raise(InvalidTextType)

text_node_to_html_node(text_node) ==
    IF text_node.text_type = TEXT THEN LeafNode(None, Some(text_node.text), None)
    ELSE IF text_node.text_type = BOLD
    THEN LeafNode(Some(<<"b">>), Some(text_node.text), None)
    ELSE IF text_node.text_type = ITALIC
    THEN LeafNode(Some(<<"i">>), Some(text_node.text), None)
    ELSE IF text_node.text_type = CODE
    THEN LeafNode(Some(<<"c", "o", "d", "e">>), Some(text_node.text), None)
    ELSE IF text_node.text_type = LINK
    THEN LeafNode(Some(<<"a">>), Some(text_node.text),
                  Some(<< <<(<<"h", "r", "e", "f">>), text_node.url>> >>))
    ELSE IF text_node.text_type = IMAGE
    THEN LeafNode(Some(<<"i", "m", "g">>), Some(<<>>),
                  Some(<< <<(<<"s", "r", "c">>), text_node.url>>,
                          <<(<<"a", "l", "t">>), Some(text_node.text)>> >>))
    ELSE Raise(InvalidTextType)

(***************************************************************************)
(* markdown_blocks.py: markdown_to_blocks                                  *)
(***************************************************************************)

\* markdown_to_blocks that splits at every newline
markdown_to_blocks_by_line(md) ==
    LET pieces == Split(md, Newline)
        kept == SelectSeq(pieces, LAMBDA b : Strip(b) # <<>>)
    IN  [k \in 1..Len(kept) |-> Strip(kept[k])]

\* markdown_to_blocks that keeps the pieces as they are cut
markdown_to_blocks_unstripped(md) ==
    LET pieces == Split(md, Newline \o Newline)
    IN  SelectSeq(pieces, LAMBDA b : Strip(b) # <<>>)

markdown_to_blocks(md) ==
    LET pieces == Split(md, Newline \o Newline)
        kept == SelectSeq(pieces, LAMBDA b : Strip(b) # <<>>)
    IN  [k \in 1..Len(kept) |-> Strip(kept[k])]

(***************************************************************************)
(* markdown_blocks.py: the conversion of a block to an HTML node           *)
(***************************************************************************)
InvalidHeadingLevel == "invalid heading level"
InvalidCodeBlock == "invalid code block"
InvalidQuoteBlock == "invalid quote block"
UnsupportedBlockType == "Unsupported block type"

\* the loop of text_to_children over the text nodes not yet converted
RECURSIVE TextNodesToChildren(_, _)
TextNodesToChildren(text_nodes, children) ==
    IF text_nodes = <<>> THEN Return(children)
    ELSE LET r == text_node_to_html_node(Head(text_nodes))
         IN  IF r.error # "" THEN r
             ELSE TextNodesToChildren(Tail(text_nodes), Append(children, r.value))

\* the loop of text_to_children on what text_to_textnodes returned
ChildrenOf(r) ==
    IF r.error # "" THEN r ELSE TextNodesToChildren(r.value, <<>>)

text_to_children(t) == ChildrenOf(text_to_textnodes(t))

\* ParentNode(tag, children) on the result of text_to_children
ParentOf(tag, r) ==
    IF r.error # "" THEN r ELSE ParentNode(Some(tag), Some(r.value), None)

paragraph_to_html_node(b) ==
    LET lines == Split(b, Newline)
        paragraph == Join(lines, <<" ">>)
    IN  ParentOf(<<"p">>, text_to_children(paragraph))

\* the loop of heading_to_html_node counting the leading "#"
RECURSIVE HeadingLevel(_)
HeadingLevel(b) ==
    IF b # <<>> /\ Head(b) = "#" THEN 1 + HeadingLevel(Tail(b)) ELSE 0

\* heading_to_html_node keeping the space after the "#" characters
heading_to_html_node_keep_space(b) ==
    LET level == HeadingLevel(b)
    IN  IF level + 1 >= Len(b) THEN Raise(InvalidHeadingLevel)
        ELSE ParentOf(<<"h">> \o Decimal(level), text_to_children(DropFirst(b, level)))

heading_to_html_node(b) ==
    LET level == HeadingLevel(b)
    IN  IF level + 1 >= Len(b) THEN Raise(InvalidHeadingLevel)
        ELSE ParentOf(<<"h">> \o Decimal(level), text_to_children(DropFirst(b, level + 1)))

\* the list [child] of the node a call returned
ListOf(r) == IF r.error # "" THEN r ELSE Return(<<r.value>>)

\* code_to_html_node without its check of the two fences
code_to_html_node_unchecked(b) ==
    LET raw_text_node == TextNode(SliceFromTo(b, 4, 3), TEXT, NoUrl)
        child == text_node_to_html_node(raw_text_node)
        code == ParentOf(<<"c", "o", "d", "e">>, ListOf(child))
    IN  ParentOf(<<"p", "r", "e">>, ListOf(code))

code_to_html_node(b) ==
    IF ~StartsWith(b, Fence) \/ ~EndsWith(b, Fence) THEN Raise(InvalidCodeBlock)
    ELSE LET raw_text_node == TextNode(SliceFromTo(b, 4, 3), TEXT, NoUrl)
             child == text_node_to_html_node(raw_text_node)
             code == ParentOf(<<"c", "o", "d", "e">>, ListOf(child))
         IN  ParentOf(<<"p", "r", "e">>, ListOf(code))

\* the loop of olist_to_html_node and of ulist_to_html_node over the items
\* not yet converted; marker is the number of characters cut from an item
RECURSIVE ItemsToHtml(_, _, _)

\* html_items.append(li) and the rest of the loop
AppendItem(li, items, html_items, marker) ==
    IF li.error # "" THEN li
    ELSE ItemsToHtml(items, Append(html_items, li.value), marker)

ItemsToHtml(items, html_items, marker) ==
    IF items = <<>> THEN Return(html_items)
    ELSE AppendItem(ParentOf(<<"l", "i">>,
                             text_to_children(DropFirst(Head(items), marker))),
                    Tail(items), html_items, marker)

\* olist_to_html_node cutting two characters from an item, as for "- "
olist_to_html_node_as_unordered(b) ==
    ParentOf(<<"o", "l">>, ItemsToHtml(Split(b, Newline), <<>>, 2))

olist_to_html_node(b) ==
    ParentOf(<<"o", "l">>, ItemsToHtml(Split(b, Newline), <<>>, 3))

ulist_to_html_node(b) ==
    ParentOf(<<"u", "l">>, ItemsToHtml(Split(b, Newline), <<>>, 2))

\* the loop of quote_to_html_node over the lines not yet cleaned
RECURSIVE QuoteLines(_, _)
QuoteLines(lines, new_lines) ==
    IF lines = <<>> THEN Return(new_lines)
    ELSE IF ~StartsWith(Head(lines), <<">">>) THEN Raise(InvalidQuoteBlock)
    ELSE QuoteLines(Tail(lines), Append(new_lines, Strip(LStrip(Head(lines), {">"}))))

quote_to_html_node(b) ==
    LET r == QuoteLines(Split(b, Newline), <<>>)
    IN  IF r.error # "" THEN r
        ELSE ParentOf(<<"b", "l", "o", "c", "k", "q", "u", "o", "t", "e">>,
                      text_to_children(Join(r.value, <<" ">>)))

block_to_html_node(b) ==
    LET bt == block_to_block_type(b)
    IN  IF bt = PARAGRAPH THEN paragraph_to_html_node(b)
        ELSE IF bt = HEADING THEN heading_to_html_node(b)
        ELSE IF bt = CODE_BLOCK THEN code_to_html_node(b)
        ELSE IF bt = OLIST THEN olist_to_html_node(b)
        ELSE IF bt = ULIST THEN ulist_to_html_node(b)
        ELSE IF bt = QUOTE THEN quote_to_html_node(b)
        ELSE Raise(UnsupportedBlockType)

RECURSIVE BlocksToChildren(_, _)

\* a comprehension that leaves out a block whose conversion raised
AppendChildSkipping(r, bs, children) ==
    IF r.error # "" THEN BlocksToChildren(bs, children)
    ELSE BlocksToChildren(bs, Append(children, r.value))

\* a comprehension that puts each child before the earlier ones
AppendChildFirst(r, bs, children) ==
    IF r.error # "" THEN r
    ELSE BlocksToChildren(bs, <<r.value>> \o children)

\* one element of the comprehension of markdown_to_html_node: the node r of
\* a block is appended and the blocks bs that follow are converted
AppendChild(r, bs, children) ==
    IF r.error # "" THEN r
    ELSE BlocksToChildren(bs, Append(children, r.value))

\* the comprehension of markdown_to_html_node over the blocks not yet converted
BlocksToChildren(bs, children) ==
    IF bs = <<>> THEN Return(children)
    ELSE AppendChild(block_to_html_node(Head(bs)), Tail(bs), children)

markdown_to_html_node(md) ==
    ParentOf(<<"d", "i", "v">>, BlocksToChildren(markdown_to_blocks(md), <<>>))

(***************************************************************************)
(* The classifier and the block converter as a state machine: one call of  *)
(* block_to_block_type or of block_to_html_node on the block, and then the *)
(* serialization of the node that was returned.  html_node is None until a *)
(* call returns a node, html is what to_html returned.                     *)
(***************************************************************************)
NoArgs == <<>>

InitBlock ==
    /\ block \in Blocks
    /\ block_type = "none"
    /\ text = <<>>
    /\ nodes = <<>>
    /\ old_nodes = <<>>
    /\ op = NoOp
    /\ error = ""
    /\ matches = <<>>
    /\ markdown = <<>>
    /\ blocks = <<>>
    /\ html_node = None
    /\ html = None
    /\ args = NoArgs

CallBlockToBlockType ==
    /\ block_type = "none"
    /\ block_type' = block_to_block_type(block)
    /\ UNCHANGED <<block, text, nodes, old_nodes, op, error, matches, docVars>>

\* the effect of a call that ended with r, a node or an exception
FinishNode(name, r) ==
    /\ op' = [NoOp EXCEPT !.name = name]
    /\ error' = r.error
    /\ html_node' = IF r.error # "" THEN None ELSE Some(r.value)
    /\ UNCHANGED <<text, old_nodes, matches, block, html>>

CallBlockToHtmlNode ==
    /\ op = NoOp
    /\ block_type' = block_to_block_type(block)
    /\ FinishNode("block_to_html_node", block_to_html_node(block))
    /\ UNCHANGED <<nodes, markdown, blocks, args>>

\* html_node.to_html() on the node the last call returned
CallToHtml ==
    /\ html_node # None
    /\ error = ""
    /\ op.name # "to_html"
    /\ LET r == to_html(html_node[1])
       IN  /\ op' = [NoOp EXCEPT !.name = "to_html"]
           /\ error' = r.error
           /\ html' = IF r.error # "" THEN None ELSE r.value
    /\ UNCHANGED <<text, nodes, old_nodes, matches, block, block_type,
                   markdown, blocks, html_node, args>>

NextBlock ==
    \/ CallBlockToBlockType
    \/ CallBlockToHtmlNode
    \/ CallToHtml

SpecBlock == InitBlock /\ [][NextBlock]_vars

(***************************************************************************)
(* The inputs of the document converter: a document is the concatenation   *)
(* of at most MaxDocTokens tokens; to these are added the documents of the *)
(* repository's tests with their words cut to one letter, and documents    *)
(* with a block that cannot be converted before or after one that can.     *)
(***************************************************************************)
BlankLine == Newline \o Newline

DocTokens ==
    {<<"x">>, <<" ">>, <<"\t">>, Newline, BlankLine, <<"#", " ">>, <<"_">>,
     <<">">>, <<"-", " ">>, <<"1", ".", " ">>, Fence}

TokenDocs ==
    {Concat(ts) : ts \in UNION {[1..n -> DocTokens] : n \in 0..MaxDocTokens}}

\* test_basic_blocks: three blocks, one blank line between two
TestDocBasic ==
    <<"\n", "*", "*", "x", "*", "*", "\n", "\n", "_", "y", "_", "\n", "z",
      "\n", "\n", "-", " ", "a", "\n", "-", " ", "b", "\n">>
\* test_excessive_blank_lines: the same with five newlines after the first
TestDocExcessive ==
    <<"\n", "*", "*", "x", "*", "*", "\n", "\n", "\n", "\n", "\n", "_", "y",
      "_", "\n", "z", "\n", "\n", "-", " ", "a", "\n", "-", " ", "b", "\n">>
\* test_leading_and_trailing_whitespace
TestDocWhitespace ==
    <<"\n", "\n", "\n", " ", " ", " ", "#", " ", "x", "\n", "\n", " ", " ",
      " ", "y", " ", "z", "\n", "\n">>
\* test_only_blank_lines: "\n\n   \n\n\t\n"
TestDocBlank == <<"\n", "\n", " ", " ", " ", "\n", "\n", "\t", "\n">>
\* "# Heading\n\nParagraph text"
TestDocHeadingParagraph == <<"#", " ", "H", "\n", "\n", "P", " ", "t">>
\* two paragraphs with three and with four newlines between them
TestDocThreeNewlines == <<"x", "\n", "\n", "\n", "y">>
TestDocFourNewlines == <<"x", "\n", "\n", "\n", "\n", "y">>

TestDocs ==
    {TestDocBasic, TestDocExcessive, TestDocWhitespace, TestDocBlank,
     TestDocHeadingParagraph, TestDocThreeNewlines, TestDocFourNewlines}

\* an unmatched "_" in the second of three blocks, in a heading, a list item
\* and a quote after a paragraph, and an unmatched "**" before a paragraph
CaseDocs ==
    {<<"x", "\n", "\n", "_", "y", "\n", "\n", "z">>,
     <<"x", "\n", "\n", "#", " ", "_", "y">>,
     <<"x", "\n", "\n", "-", " ", "y", "\n", "-", " ", "_">>,
     <<"x", "\n", "\n", ">", "_", "y">>,
     <<"*", "*", "x", "\n", "\n", "y">>,
     <<Backtick, "x", "\n", "\n", "y">>}

\* a fence whose closing line has a character after the backticks, alone and
\* after a paragraph
CaseDocFenceTrailing == Fence \o <<"\n", "x", "\n">> \o Fence \o <<"y">>
CaseDocParagraphFenceTrailing == <<"x", "\n", "\n">> \o CaseDocFenceTrailing

\* "###### x\ny\n\n## _y_ z": headings of level 6, with a second line, and 2
CaseDocHeadings ==
    SixHashes \o <<" ", "x", "\n", "y", "\n", "\n", "#", "#", " ", "_", "y", "_", " ", "z">>

Docs ==
    TokenDocs \cup TestDocs \cup CaseDocs
        \cup {CaseDocFenceTrailing, CaseDocParagraphFenceTrailing, CaseDocHeadings}

(***************************************************************************)
(* The document converter as a state machine: markdown_to_blocks on the    *)
(* document and then on a block it returned, or markdown_to_html_node on   *)
(* the document and then to_html on the node.                              *)
(***************************************************************************)
InitDoc ==
    /\ markdown \in Docs
    /\ blocks = <<>>
    /\ html_node = None
    /\ html = None
    /\ args = NoArgs
    /\ text = <<>>
    /\ nodes = <<>>
    /\ old_nodes = <<>>
    /\ op = NoOp
    /\ error = ""
    /\ matches = <<>>
    /\ block = <<>>
    /\ block_type = "none"

CallMarkdownToBlocks ==
    /\ op = NoOp
    /\ op' = [NoOp EXCEPT !.name = "markdown_to_blocks"]
    /\ blocks' = markdown_to_blocks(markdown)
    /\ UNCHANGED <<markdown, html_node, html, args, text, nodes, old_nodes,
                   error, matches, block, block_type>>

\* markdown_to_blocks(b) for a block b of the list the last call returned
CallMarkdownToBlocksOnBlock ==
    /\ op.name = "markdown_to_blocks"
    /\ \E k \in 1..Len(blocks) :
          /\ block' = blocks[k]
          /\ markdown' = blocks[k]
          /\ blocks' = markdown_to_blocks(blocks[k])
    /\ UNCHANGED <<op, html_node, html, args, text, nodes, old_nodes, error,
                   matches, block_type>>

CallMarkdownToHtmlNode ==
    /\ op = NoOp
    /\ blocks' = markdown_to_blocks(markdown)
    /\ FinishNode("markdown_to_html_node", markdown_to_html_node(markdown))
    /\ UNCHANGED <<nodes, markdown, block_type, args>>

NextDoc ==
    \/ CallMarkdownToBlocks
    \/ CallMarkdownToBlocksOnBlock
    \/ CallMarkdownToHtmlNode
    \/ CallToHtml

SpecDoc == InitDoc /\ [][NextDoc]_vars

(***************************************************************************)
(* The HTML nodes as a state machine: a node is made by a constructor of   *)
(* htmlnode.py or by text_node_to_html_node, a ParentNode is made over the *)
(* node made last, to a height of at most MaxDepth, and the node is        *)
(* serialized.  args are the arguments of the last constructor call, nodes *)
(* holds the TextNode given to text_node_to_html_node.                     *)
(***************************************************************************)
NodeTags == {None, Some(<<>>), Some(<<"b">>)}

NodeValues == {None, Some(<<>>), Some(<<"v">>)}

NodeProps ==
    {None, Some(<<>>),
     Some(<< <<(<<"k">>), Some(<<"w">>)>> >>),
     Some(<< <<(<<"k">>), Some(<<"w">>)>>, <<(<<"j">>), Some(<<>>)>> >>),
     Some(<< <<(<<"j">>), Some(<<"w">>)>>, <<(<<"k">>), Some(<<"w">>)>> >>)}

\* LeafNode(None, "t") and LeafNode("b", "t")
PlainLeaf == [HTMLNode(None, Some(<<"t">>), None, None) EXCEPT !.class = "LeafNode"]
BoldLeaf ==
    [HTMLNode(Some(<<"b">>), Some(<<"t">>), None, None) EXCEPT !.class = "LeafNode"]

\* the children a ParentNode is given: None, no child, or a list with the
\* node made last
ChildrenChoices ==
    {None, Some(<<>>), Some(<<PlainLeaf>>)}
        \cup (IF html_node = None THEN {}
              ELSE {Some(<<html_node[1]>>), Some(<<PlainLeaf, html_node[1]>>),
                    Some(<<html_node[1], BoldLeaf>>),
                    Some(<<BoldLeaf, PlainLeaf, html_node[1]>>)})

\* the height of a tree
RECURSIVE Depth(_)
Depth(n) ==
    IF n.children = None \/ n.children = Some(<<>>) THEN 0
    ELSE LET ds == {Depth(n.children[1][k]) : k \in 1..Len(n.children[1])}
         IN  1 + CHOOSE d \in ds : \A e \in ds : e <= d

\* a url with a double quote in it, as extract_markdown_links returns for
\* "[t](u\"x)"
QuoteUrl == <<"u", "\"", "x">>

TextNodeInputs ==
    {TextNode(t, tt, u) : t \in {<<>>, <<"t">>}, tt \in TextType \cup {"other"},
                          u \in {NoUrl, Url(<<"u">>), Url(QuoteUrl)}}

InitHtml ==
    /\ html_node = None
    /\ html = None
    /\ args = NoArgs
    /\ markdown = <<>>
    /\ blocks = <<>>
    /\ text = <<>>
    /\ nodes = <<>>
    /\ old_nodes = <<>>
    /\ op = NoOp
    /\ error = ""
    /\ matches = <<>>
    /\ block = <<>>
    /\ block_type = "none"

\* a constructor call with these arguments that ended with r
Construct(name, tag, value, children, props, r) ==
    /\ args' = [tag |-> tag, value |-> value, children |-> children, props |-> props]
    /\ FinishNode(name, r)
    /\ UNCHANGED <<nodes, markdown, blocks, block_type>>

CallHTMLNode ==
    /\ op = NoOp
    /\ \E tag \in {None, Some(<<"b">>)}, value \in {None, Some(<<"v">>)} :
          Construct("HTMLNode", tag, value, None, None,
                    Return(HTMLNode(tag, value, None, None)))

CallLeafNode ==
    /\ op = NoOp
    /\ \E tag \in NodeTags, value \in NodeValues, props \in NodeProps :
          Construct("LeafNode", tag, value, None, props, LeafNode(tag, value, props))

CallParentNode ==
    /\ error = ""
    /\ op.name # "to_html"
    /\ html_node # None => Depth(html_node[1]) < MaxDepth
    /\ \E tag \in {None, Some(<<"p">>)}, children \in ChildrenChoices,
          props \in {None, Some(<< <<(<<"k">>), Some(<<"w">>)>> >>)} :
          Construct("ParentNode", tag, None, children, props,
                    ParentNode(tag, children, props))

CallTextNodeToHtmlNode ==
    /\ op = NoOp
    /\ \E text_node \in TextNodeInputs :
          /\ nodes' = <<text_node>>
          /\ FinishNode("text_node_to_html_node", text_node_to_html_node(text_node))
    /\ UNCHANGED <<markdown, blocks, block_type, args>>

NextHtml ==
    \/ CallHTMLNode
    \/ CallLeafNode
    \/ CallParentNode
    \/ CallTextNodeToHtmlNode
    \/ CallToHtml

SpecHtml == InitHtml /\ [][NextHtml]_vars

(***************************************************************************)
(* Properties of the inline splitter.                                      *)
(***************************************************************************)
\* the characters of every span in order, a url after its text
RECURSIVE SpanChars(_)
SpanChars(ns) ==
    IF ns = <<>> THEN <<>>
    ELSE Head(ns).text
         \o (IF Head(ns).url = NoUrl THEN <<>> ELSE Head(ns).url[1])
         \o SpanChars(Tail(ns))

\* a is b with some characters left out
RECURSIVE IsSubsequence(_, _)
IsSubsequence(a, b) ==
    IF a = <<>> THEN TRUE
    ELSE IF b = <<>> THEN FALSE
    ELSE IF Head(a) = Head(b) THEN IsSubsequence(Tail(a), Tail(b))
    ELSE IsSubsequence(a, Tail(b))

\* one stage of the pipeline applied to a list
ApplyStage(stage, ns) ==
    CASE stage = "bold" -> split_nodes_delimiter(ns, BoldDelimiter, BOLD)
      [] stage = "italic" -> split_nodes_delimiter(ns, ItalicDelimiter, ITALIC)
      [] stage = "code" -> split_nodes_delimiter(ns, CodeDelimiter, CODE)
      [] stage = "image" -> split_nodes_image(ns)
      [] stage = "link" -> split_nodes_link(ns)

StageOrder == <<"bold", "italic", "code", "image", "link">>

\* the result of the first k stages on the raw text t, an error ending the run
RECURSIVE StageResult(_, _)
StageResult(k, t) ==
    IF k = 0 THEN Return(<<TextNode(t, TEXT, NoUrl)>>)
    ELSE LET r == StageResult(k - 1, t)
         IN  IF r.error # "" THEN r ELSE ApplyStage(StageOrder[k], r.value)

\* the list test_text_to_textnodes expects for TestTextAll
TestNodesAll ==
    <<TextNode(<<"a">>, TEXT, NoUrl), TextNode(<<"b">>, BOLD, NoUrl),
      TextNode(<<"a">>, TEXT, NoUrl), TextNode(<<"i">>, ITALIC, NoUrl),
      TextNode(<<"a">>, TEXT, NoUrl), TextNode(<<"c">>, CODE, NoUrl),
      TextNode(<<"a">>, TEXT, NoUrl), TextNode(<<"g">>, IMAGE, Url(<<"u">>)),
      TextNode(<<"a">>, TEXT, NoUrl), TextNode(<<"l">>, LINK, Url(<<"v">>))>>

RECURSIVE Occurrences(_, _)
Occurrences(s, d) ==
    IF Len(s) < Len(d) THEN 0
    ELSE IF SubSeq(s, 1, Len(d)) = d THEN 1 + Occurrences(DropFirst(s, Len(d)), d)
    ELSE Occurrences(Tail(s), d)

\* node k of ns is a TEXT node with an odd number of delimiters d
Unbalanced(ns, k, d) ==
    ns[k].text_type = TEXT /\ Occurrences(ns[k].text, d) % 2 = 1

\* C2: split_nodes_delimiter raises the unmatched-delimiter ValueError exactly
\* when some TEXT node of its input holds an odd number of delimiters (an even
\* number of sections); otherwise it returns, and when it raises no list is
\* returned whatever the nodes before the unbalanced one were.
C2_RaisesIffUnbalanced ==
    op.name = "split_nodes_delimiter" =>
        /\ error # "" <=> \E k \in 1..Len(old_nodes) : Unbalanced(old_nodes, k, op.delimiter)
        /\ error # "" => error = UnmatchedDelimiter /\ nodes = <<>>
        /\ \A k \in 1..Len(old_nodes) :
              old_nodes[k].text_type = TEXT =>
                  (Len(Split(old_nodes[k].text, op.delimiter)) % 2 = 0
                      <=> Unbalanced(old_nodes, k, op.delimiter))

\* the call raised at a later node after a balanced TEXT node holding delimiters
C2_Witness ==
    /\ op.name = "split_nodes_delimiter"
    /\ error = UnmatchedDelimiter
    /\ \E j, k \in 1..Len(old_nodes) :
          /\ j < k
          /\ old_nodes[j].text_type = TEXT
          /\ Occurrences(old_nodes[j].text, op.delimiter) = 2
          /\ Unbalanced(old_nodes, k, op.delimiter)

\* the spans the claim gives for one TEXT node: the non-empty sections in
\* order, TEXT at the even 0-based indices and text_type at the odd ones
SectionSpans(s, d, text_type) ==
    LET sections == Split(s, d)
        kept == SelectSeq([k \in 1..Len(sections) |-> k], LAMBDA k : sections[k] # <<>>)
    IN  [j \in 1..Len(kept) |->
            TextNode(sections[kept[j]],
                     IF (kept[j] - 1) % 2 = 0 THEN TEXT ELSE text_type, NoUrl)]

\* C3: split_nodes_delimiter returns, for each TEXT node with balanced
\* delimiters, one span for each non-empty section in section order, TEXT for
\* sections 0, 2, 4.. and the stage's type for sections 1, 3, 5..; an empty
\* section gives no span, so that no span cut from a TEXT node has an empty
\* text.
C3_SectionsToSpans ==
    (op.name = "split_nodes_delimiter" /\ error = "") =>
        /\ nodes = Concat([k \in 1..Len(old_nodes) |->
                              IF old_nodes[k].text_type = TEXT
                              THEN SectionSpans(old_nodes[k].text, op.delimiter, op.text_type)
                              ELSE <<old_nodes[k]>>])
        /\ (\A k \in 1..Len(old_nodes) : old_nodes[k].text_type = TEXT)
              => \A k \in 1..Len(nodes) : nodes[k].text # <<>>

\* a delimited section was emitted and an empty section was dropped
C3_Witness ==
    /\ op.name = "split_nodes_delimiter"
    /\ error = ""
    /\ Len(old_nodes) = 1
    /\ old_nodes[1].text_type = TEXT
    /\ LET sections == Split(old_nodes[1].text, op.delimiter)
       IN  /\ Len(sections) >= 3
           /\ \E k \in 1..Len(sections) : sections[k] = <<>>
           /\ \E k \in 1..Len(nodes) : nodes[k].text_type = op.text_type

\* the call op on the list ns
ApplyOp(call, ns) ==
    CASE call.name = "split_nodes_delimiter" ->
            split_nodes_delimiter(ns, call.delimiter, call.text_type)
      [] call.name = "split_nodes_image" -> split_nodes_image(ns)
      [] call.name = "split_nodes_link" -> split_nodes_link(ns)

SplitCalls == {"split_nodes_delimiter", "split_nodes_image", "split_nodes_link"}

\* C4: split_nodes_delimiter, split_nodes_image and split_nodes_link return
\* every node that is not TEXT as it was given and where it was given, between
\* the spans of the TEXT nodes around it; a delimiter or pattern inside such a
\* node is never split and never raises.
C4_NonPlainUntouched ==
    op.name \in SplitCalls =>
        /\ error = "" =>
              nodes = Concat([k \in 1..Len(old_nodes) |->
                                 IF old_nodes[k].text_type # TEXT
                                 THEN <<old_nodes[k]>>
                                 ELSE ApplyOp(op, <<old_nodes[k]>>).value])
        /\ error # "" =>
              \E k \in 1..Len(old_nodes) :
                  /\ old_nodes[k].text_type = TEXT
                  /\ ApplyOp(op, <<old_nodes[k]>>).error # ""

\* a node that is not TEXT and holds the markup the call looks for went through
C4_Witness ==
    /\ op.name \in {"split_nodes_image", "split_nodes_link"}
    /\ error = ""
    /\ \E k \in 1..Len(old_nodes) :
          /\ old_nodes[k].text_type = BOLD
          /\ ApplyOp(op, <<TextNode(old_nodes[k].text, TEXT, NoUrl)>>).value
                # <<TextNode(old_nodes[k].text, TEXT, NoUrl)>>
          /\ \E j \in 1..Len(nodes) : nodes[j] = old_nodes[k]

\* the spans the claim gives for one TEXT node: cut at the places where the
\* extractor matched (ms, in order), from position from on
RECURSIVE SpansAtMatches(_, _, _, _)
SpansAtMatches(s, ms, from, node_type) ==
    IF ms = <<>>
    THEN IF from <= Len(s) THEN <<TextNode(SubSeq(s, from, Len(s)), TEXT, NoUrl)>> ELSE <<>>
    ELSE (IF from < Head(ms).pos
          THEN <<TextNode(SubSeq(s, from, Head(ms).pos - 1), TEXT, NoUrl)>>
          ELSE <<>>)
         \o <<TextNode(Head(ms).text, node_type, Url(Head(ms).url))>>
         \o SpansAtMatches(s, Tail(ms), Head(ms).stop, node_type)

PatternSpans(node, node_type) ==
    LET ms == FindAll(node.text, 1, node_type)
    IN  IF ms = <<>> THEN <<node>> ELSE SpansAtMatches(node.text, ms, 1, node_type)

\* a span written back as markdown: ![text](url), [text](url), or its text
RenderSpan(node) ==
    IF node.text_type \in {IMAGE, LINK}
    THEN PatternMarkdown(node.text, node.url[1], node.text_type)
    ELSE node.text

Render(ns) == Concat([k \in 1..Len(ns) |-> RenderSpan(ns[k])])

\* C5: for each TEXT node split_nodes_image / split_nodes_link return one
\* IMAGE / LINK span for each match of the extractor, in match order and with
\* its (text, url), and the non-empty text before the first match, between
\* two matches and after the last match as TEXT spans in their places; the
\* spans written back as markdown give the input text; a TEXT node with no
\* match is returned as it was.
C5_SpansAtMatches ==
    op.name \in {"split_nodes_image", "split_nodes_link"} =>
        /\ error = ""
        /\ nodes = Concat([k \in 1..Len(old_nodes) |->
                              IF old_nodes[k].text_type = TEXT
                              THEN PatternSpans(old_nodes[k], op.text_type)
                              ELSE <<old_nodes[k]>>])
        /\ Render(nodes) = Render(old_nodes)

\* the text holds none of the markdown the five stages look for
NoSyntax(t) ==
    /\ Find(t, BoldDelimiter) = 0
    /\ Find(t, ItalicDelimiter) = 0
    /\ Find(t, CodeDelimiter) = 0
    /\ extract_markdown_images(t) = <<>>
    /\ extract_markdown_links(t) = <<>>

\* C6 as stated: for every text without markdown syntax, the empty text too,
\* text_to_textnodes returns the one TEXT span holding the text.
C6_PlainTextOneSpan ==
    (op.name = "text_to_textnodes" /\ NoSyntax(text)) =>
        error = "" /\ nodes = <<TextNode(text, TEXT, NoUrl)>>

\* C6 as amended: for every non-empty text without markdown syntax
\* text_to_textnodes returns the one TEXT span holding the text, and for the
\* empty text it returns the empty list.
C6_NonEmptyPlainTextOneSpan ==
    (op.name = "text_to_textnodes" /\ NoSyntax(text)) =>
        /\ error = ""
        /\ text # <<>> => nodes = <<TextNode(text, TEXT, NoUrl)>>
        /\ text = <<>> => nodes = <<>>

\* a text of markdown characters that form no markup went through the stages
C6_Witness ==
    /\ op.name = "text_to_textnodes"
    /\ NoSyntax(text)
    /\ {"*", "[", "!"} \subseteq {text[k] : k \in 1..Len(text)}
    /\ nodes = <<TextNode(text, TEXT, NoUrl)>>

\* s holds [text](url) from position p: "]" at q, then "(", and ")" at r,
\* no bracket inside the text and no parenthesis inside the url
IsOccurrence(s, p, q, r) ==
    /\ p < q /\ q + 1 < r /\ r <= Len(s)
    /\ s[p] = "[" /\ s[q] = "]" /\ s[q + 1] = "(" /\ s[r] = ")"
    /\ \A k \in (p + 1)..(q - 1) : s[k] \notin {"[", "]"}
    /\ \A k \in (q + 2)..(r - 1) : s[k] \notin {"(", ")"}

\* the (text, url) of the occurrences from position p on, an occurrence being
\* taken when it follows "!" (bang) or when it does not (~bang)
RECURSIVE OccurrencesFrom(_, _, _)
OccurrencesFrom(s, p, bang) ==
    IF p > Len(s) THEN <<>>
    ELSE LET ends == {qr \in (1..Len(s)) \X (1..Len(s)) : IsOccurrence(s, p, qr[1], qr[2])}
             after == (p > 1 /\ s[p - 1] = "!")
         IN  IF ends # {} /\ after = bang
             THEN LET qr == CHOOSE e \in ends : TRUE
                  IN  <<<<SubSeq(s, p + 1, qr[1] - 1), SubSeq(s, qr[1] + 2, qr[2] - 1)>>>>
                      \o OccurrencesFrom(s, p + 1, bang)
             ELSE OccurrencesFrom(s, p + 1, bang)

ImageOnly == <<"!">> \o LinkToken

\* C7: extract_markdown_links returns the [text](url) occurrences that do not
\* follow "!" and extract_markdown_images those that do, so that no
\* occurrence is returned by both; on "![a](b)" the first returns nothing and
\* the second the one match (a, b), and on "[a](b)" the second returns nothing.
C7_ExtractorsDisjoint ==
    /\ op.name = "extract_markdown_links" =>
          /\ matches = OccurrencesFrom(text, 1, FALSE)
          /\ text = ImageOnly => matches = <<>>
    /\ op.name = "extract_markdown_images" =>
          /\ matches = OccurrencesFrom(text, 1, TRUE)
          /\ text = ImageOnly => matches = <<<<<<"a">>, <<"b">>>>>>
          /\ text = LinkToken => matches = <<>>

\* the link extractor passed over an image and returned a link
C7_Witness ==
    /\ op.name = "extract_markdown_links"
    /\ matches # <<>>
    /\ extract_markdown_images(text) # <<>>

(***************************************************************************)
(* Properties of the block classifier.                                     *)
(***************************************************************************)
\* the number of "#" the block begins with
LeadingHashes(b) ==
    CHOOSE n \in 0..Len(b) :
        /\ \A k \in 1..n : b[k] = "#"
        /\ n < Len(b) => b[n + 1] # "#"

\* the lines of the block
Lines(b) == Split(b, Newline)

\* line k of the block begins with p
LineBegins(b, k, p) ==
    /\ Len(Lines(b)[k]) >= Len(p)
    /\ \A j \in 1..Len(p) : Lines(b)[k][j] = p[j]

IsHeading(b) ==
    /\ LeadingHashes(b) \in 1..6
    /\ LeadingHashes(b) < Len(b)
    /\ b[LeadingHashes(b) + 1] = " "

IsCode(b) ==
    /\ Len(Lines(b)) >= 2
    /\ LineBegins(b, 1, Fence)
    /\ LineBegins(b, Len(Lines(b)), Fence)

IsQuote(b) == \A k \in 1..Len(Lines(b)) : LineBegins(b, k, <<">">>)

IsUnorderedList(b) == \A k \in 1..Len(Lines(b)) : LineBegins(b, k, <<"-", " ">>)

IsOrderedList(b) ==
    \A k \in 1..Len(Lines(b)) : LineBegins(b, k, Decimal(k) \o <<".", " ">>)

\* the first type that matches, in the claim's order
FirstMatch(b) ==
    CASE IsHeading(b) -> HEADING
      [] ~IsHeading(b) /\ IsCode(b) -> CODE_BLOCK
      [] ~IsHeading(b) /\ ~IsCode(b) /\ IsQuote(b) -> QUOTE
      [] ~IsHeading(b) /\ ~IsCode(b) /\ ~IsQuote(b) /\ IsUnorderedList(b) -> ULIST
      [] ~IsHeading(b) /\ ~IsCode(b) /\ ~IsQuote(b) /\ ~IsUnorderedList(b)
            /\ IsOrderedList(b) -> OLIST
      [] OTHER -> PARAGRAPH

NoSpaceAfterHashes(b) ==
    /\ LeadingHashes(b) >= 1
    /\ LeadingHashes(b) < Len(b) => b[LeadingHashes(b) + 1] # " "

\* the first line is 1 to 6 "#" and a space and nothing else, and a line follows
MarkerAloneOnFirstLine(b) ==
    /\ Len(Lines(b)) >= 2
    /\ \E n \in 1..6 : Lines(b)[1] = [k \in 1..(n + 1) |-> IF k <= n THEN "#" ELSE " "]

\* C9: a block that looks like a heading and is not a valid one is a
\* paragraph: a block with no space after its "#", a block with seven "#" or
\* more, and a block whose first line is the heading marker and its space
\* alone, the text being on the next line ("# \nHeading with newline").
C9_InvalidHeadingIsParagraph ==
    (/\ block_type # "none"
     /\ \/ NoSpaceAfterHashes(block)
        \/ LeadingHashes(block) >= 7
        \/ MarkerAloneOnFirstLine(block)) =>
        block_type = PARAGRAPH

DegenerateBlocks == {<<>>, <<" ">>, <<"#">>, Fence, <<">">>}

\* C10: the empty block, the block of one space, a lone "#", a lone fence of
\* three backticks and a lone ">" are paragraphs.
C10_DegenerateIsParagraph ==
    (block_type # "none" /\ block \in DegenerateBlocks) => block_type = PARAGRAPH

(***************************************************************************)
(* Properties of the document converter.                                   *)
(***************************************************************************)
\* the elements of a set of numbers in ascending order
RECURSIVE Ascending(_)
Ascending(S) ==
    IF S = {} THEN <<>>
    ELSE LET m == CHOOSE x \in S : \A y \in S : x <= y
         IN  <<m>> \o Ascending(S \ {m})

\* the number of newlines that stand directly before position p
NewlinesBefore(md, p) ==
    Cardinality({q \in 1..(p - 1) : \A k \in q..(p - 1) : md[k] = "\n"})

\* the places where the document is cut: a two-newline sequence that begins
\* at an even distance from the start of its run of newlines
Cuts(md) ==
    {p \in 1..(Len(md) - 1) :
        md[p] = "\n" /\ md[p + 1] = "\n" /\ NewlinesBefore(md, p) % 2 = 0}

\* md[a..b] without the whitespace at its two ends
Trim(md, a, b) ==
    LET ink == {i \in a..b : md[i] \notin Whitespace}
    IN  IF ink = {} THEN <<>>
        ELSE SubSeq(md, CHOOSE i \in ink : \A j \in ink : i <= j,
                        CHOOSE i \in ink : \A j \in ink : j <= i)

\* the trimmed pieces between the cuts that are not empty, in document order
TrimmedPieces(md) ==
    LET cs == Ascending(Cuts(md))
        pieces == [k \in 1..(Len(cs) + 1) |->
                      Trim(md, IF k = 1 THEN 1 ELSE cs[k - 1] + 2,
                               IF k = Len(cs) + 1 THEN Len(md) ELSE cs[k] - 1)]
    IN  SelectSeq(pieces, LAMBDA s : s # <<>>)

Trimmed(s) == s # <<>> /\ s[1] \notin Whitespace /\ s[Len(s)] \notin Whitespace

NoBlankLine(s) == \A p \in 1..(Len(s) - 1) : ~(s[p] = "\n" /\ s[p + 1] = "\n")

\* the document without its character at position p
Without(md, p) == SubSeq(md, 1, p - 1) \o SubSeq(md, p + 1, Len(md))

\* the positions at which three newlines begin
LongRuns(md) ==
    {p \in 1..(Len(md) - 2) : \A k \in p..(p + 2) : md[k] = "\n"}

\* C11: markdown_to_blocks returns, in document order, exactly the trimmed
\* pieces of the document cut at the two-newline sequences that are not
\* empty after trimming.  So every block is non-empty, has no whitespace at
\* its ends and no two newlines in a row, a document of whitespace gives no
\* block, and a run of three or more newlines gives the same blocks as the
\* run with one newline less.
C11_BlocksAreTrimmedPieces ==
    op.name = "markdown_to_blocks" =>
        /\ blocks = TrimmedPieces(markdown)
        /\ \A k \in 1..Len(blocks) : Trimmed(blocks[k]) /\ NoBlankLine(blocks[k])
        /\ (\A i \in 1..Len(markdown) : markdown[i] \in Whitespace) => blocks = <<>>
        /\ \A p \in LongRuns(markdown) :
              markdown_to_blocks(Without(markdown, p)) = blocks

\* a document that begins with whitespace, has a run of three newlines and
\* gives two blocks or more
C11_Witness ==
    /\ op.name = "markdown_to_blocks"
    /\ block = <<>>
    /\ Len(blocks) >= 2
    /\ LongRuns(markdown) # {}
    /\ markdown[1] \in Whitespace

\* C12: markdown_to_blocks leaves a block alone: a trimmed text that is not
\* empty and has no two newlines in a row comes back as the only block, and
\* so does every block that markdown_to_blocks returned.
C12_BlocksAreFixed ==
    op.name = "markdown_to_blocks" =>
        /\ (Trimmed(markdown) /\ NoBlankLine(markdown)) => blocks = <<markdown>>
        /\ block # <<>> => blocks = <<block>>

\* markdown_to_blocks was called on a block of two lines that an earlier call
\* returned
C12_Witness ==
    /\ op.name = "markdown_to_blocks"
    /\ block # <<>>
    /\ markdown = block
    /\ \E p \in 2..(Len(block) - 1) : block[p] = "\n"
    /\ blocks = <<block>>

\* "<div></div>"
HtmlEmptyDiv == <<"<", "d", "i", "v", ">", "<", "/", "d", "i", "v", ">">>

\* "<div><h1>H</h1><p>P t</p></div>"
HtmlHeadingParagraph ==
    <<"<", "d", "i", "v", ">", "<", "h", "1", ">", "H", "<", "/", "h", "1", ">",
      "<", "p", ">", "P", " ", "t", "<", "/", "p", ">", "<", "/", "d", "i", "v", ">">>

\* the blocks of the document whose conversion raises
FailingBlocks(md) ==
    LET bs == TrimmedPieces(md)
    IN  {k \in 1..Len(bs) : block_to_html_node(bs[k]).error # ""}

\* C13: when the conversion succeeds, markdown_to_html_node returns a div
\* ParentNode without attributes whose children are, in order, the nodes of
\* the blocks of the document, one for each; a document without blocks is
\* serialized as an empty div, and a heading followed by a paragraph as a
\* div holding an h1 and a p.
C13_DivOfBlockNodes ==
    (op.name \in {"markdown_to_html_node", "to_html"} /\ error = "") =>
        LET bs == TrimmedPieces(markdown)
            div == html_node[1]
        IN  /\ html_node # None
            /\ div.class = "ParentNode"
            /\ div.tag = Some(<<"d", "i", "v">>)
            /\ div.props = None
            /\ div.children # None
            /\ Len(div.children[1]) = Len(bs)
            /\ \A k \in 1..Len(bs) :
                  block_to_html_node(bs[k]) = Return(div.children[1][k])
            /\ (op.name = "to_html" /\ bs = <<>>) => html = Some(HtmlEmptyDiv)
            /\ (op.name = "to_html" /\ markdown = TestDocHeadingParagraph)
                  => html = Some(HtmlHeadingParagraph)

\* a document of three blocks, a list among them, was converted and serialized
C13_Witness ==
    /\ op.name = "to_html"
    /\ error = ""
    /\ Len(blocks) = 3
    /\ block_to_block_type(blocks[1]) = PARAGRAPH
    /\ block_to_block_type(blocks[3]) = ULIST
    /\ html # None

\* C14: when the conversion of a block raises, markdown_to_html_node raises
\* that error and returns no node, whatever the other blocks are; with more
\* than one such block the error is that of the first.
C14_BlockErrorAborts ==
    op.name = "markdown_to_html_node" =>
        LET bs == TrimmedPieces(markdown)
            failing == FailingBlocks(markdown)
        IN  failing # {} =>
               /\ html_node = None
               /\ error = block_to_html_node(
                              bs[CHOOSE k \in failing : \A j \in failing : k <= j]).error

\* the second of three blocks cannot be converted, the first and the third can
C14_Witness ==
    /\ op.name = "markdown_to_html_node"
    /\ Len(blocks) = 3
    /\ FailingBlocks(markdown) = {2}
    /\ error # ""
    /\ html_node = None

(***************************************************************************)
(* Properties of the HTML nodes.                                           *)
(***************************************************************************)
\* a tree of LeafNode and ParentNode objects whose attributes are strings
RECURSIVE IsTree(_)
IsTree(n) ==
    /\ n.class \in {"LeafNode", "ParentNode"}
    /\ n.props # None => \A k \in 1..Len(n.props[1]) : n.props[1][k][2] # None
    /\ n.children # None => \A k \in 1..Len(n.children[1]) : IsTree(n.children[1][k])

\* ATTRS: nothing without attributes, else one  name="value"  after a space
\* for each attribute, in the order of the mapping
Attrs(props) ==
    IF props = None THEN <<>>
    ELSE Concat([k \in 1..Len(props[1]) |->
                    <<" ">> \o props[1][k][1] \o <<"=", "\"">> \o props[1][k][2][1]
                        \o <<"\"">>])

\* the serialization of a tree when a leaf whose tag is in raw is its value
RECURSIVE Serialization(_, _)
Serialization(n, raw) ==
    IF n.class = "LeafNode" /\ n.tag \in raw THEN n.value[1]
    ELSE <<"<">> \o n.tag[1] \o Attrs(n.props) \o <<">">>
         \o (IF n.class = "LeafNode" THEN n.value[1]
             ELSE Concat([k \in 1..Len(n.children[1]) |->
                             Serialization(n.children[1][k], raw)]))
         \o <<"<", "/">> \o n.tag[1] \o <<">">>

\* C15 as stated: a LeafNode without a tag is serialized as its value, one
\* with a tag as the element of that tag around the value, a ParentNode as
\* the element of its tag around the serializations of its children in
\* order, the attributes in the order of the mapping.
C15_SerializationAsStated ==
    (op.name = "to_html" /\ IsTree(html_node[1])) =>
        html = Some(Serialization(html_node[1], {None}))

\* C15: a LeafNode without a tag or with the empty tag is serialized as its
\* value, one with a non-empty tag as the element of that tag around the
\* value, a ParentNode as the element of its tag around the serializations
\* of its children in order, the attributes in the order of the mapping.
C15_Serialization ==
    (op.name = "to_html" /\ IsTree(html_node[1])) =>
        html = Some(Serialization(html_node[1], {None, Some(<<>>)}))

\* a ParentNode with an attribute over a tagged leaf, a raw leaf and a
\* ParentNode with a child of its own was serialized
C15_Witness ==
    /\ op.name = "to_html"
    /\ error = ""
    /\ IsTree(html_node[1])
    /\ html_node[1].props # None
    /\ Depth(html_node[1]) = 2
    /\ Len(html_node[1].children[1]) = 3
    /\ html # None

\* C16: LeafNode raises a ValueError exactly when its value is None,
\* ParentNode exactly when its tag or its children are None, so also not
\* for the empty list of children; and to_html on a tree of LeafNode and
\* ParentNode objects that were constructed returns a str and raises
\* nothing.
C16_RejectedAtConstruction ==
    /\ op.name = "LeafNode" =>
          /\ args.value = None => (error = NoValue /\ html_node = None)
          /\ args.value # None => (error = "" /\ html_node # None)
    /\ op.name = "ParentNode" =>
          /\ args.tag = None => (error = NoTag /\ html_node = None)
          /\ (args.tag # None /\ args.children = None)
                => (error = NoChildren /\ html_node = None)
          /\ (args.tag # None /\ args.children # None)
                => (error = "" /\ html_node # None)
    /\ (op.name = "to_html" /\ IsTree(html_node[1])) => (error = "" /\ html # None)

\* a ParentNode over a ParentNode without children and a leaf was serialized
C16_Witness ==
    /\ op.name = "to_html"
    /\ error = ""
    /\ html # None
    /\ html_node[1].class = "ParentNode"
    /\ Len(html_node[1].children[1]) = 2
    /\ \E k \in 1..2 :
          /\ html_node[1].children[1][k].class = "ParentNode"
          /\ html_node[1].children[1][k].children = Some(<<>>)

\* the LeafNode of a text node: tag, value and attributes
Leaf(tag, value, props) ==
    Some([class |-> "LeafNode", tag |-> tag, value |-> Some(value),
          children |-> None, props |-> props])

\* C17: text_node_to_html_node returns a LeafNode for each of the six text
\* types: no tag for TEXT, the tags b, i and code for BOLD, ITALIC and CODE,
\* each with the text as value and no attributes; the tag a with the text
\* and the attribute href for LINK; the tag img with the empty value and
\* the attributes src and alt, in this order, for IMAGE.  For any other
\* type it raises a ValueError.
C17_LeafOfTextNode ==
    op.name = "text_node_to_html_node" =>
        LET t == nodes[1].text
            u == nodes[1].url
            tt == nodes[1].text_type
        IN  /\ tt \in TextType <=> error = ""
            /\ tt \notin TextType => (error = InvalidTextType /\ html_node = None)
            /\ tt = TEXT => html_node = Leaf(None, t, None)
            /\ tt = BOLD => html_node = Leaf(Some(<<"b">>), t, None)
            /\ tt = ITALIC => html_node = Leaf(Some(<<"i">>), t, None)
            /\ tt = CODE => html_node = Leaf(Some(<<"c", "o", "d", "e">>), t, None)
            /\ tt = LINK =>
                  html_node = Leaf(Some(<<"a">>), t,
                                   Some(<< <<(<<"h", "r", "e", "f">>), u>> >>))
            /\ tt = IMAGE =>
                  html_node = Leaf(Some(<<"i", "m", "g">>), <<>>,
                                   Some(<< <<(<<"s", "r", "c">>), u>>,
                                           <<(<<"a", "l", "t">>), Some(t)>> >>))

\* an image with a text and a url was converted
C17_Witness ==
    /\ op.name = "text_node_to_html_node"
    /\ nodes[1].text_type = IMAGE
    /\ nodes[1].text # <<>>
    /\ nodes[1].url # NoUrl
    /\ html_node # None

(***************************************************************************)
(* Properties of the link and image splitters and of the code converter.   *)
(***************************************************************************)
\* the call was given one TEXT node
OneTextNode == Len(old_nodes) = 1 /\ old_nodes[1].text_type = TEXT

\* C18: split_nodes_image and split_nodes_link never raise the error of a
\* malformed pattern: the literal of each match is found in the text that is
\* left when its turn comes.
C18_LiteralAlwaysFound ==
    /\ error # MalformedPattern
    /\ op.name \in {"split_nodes_image", "split_nodes_link"} =>
          \A k \in 1..Len(old_nodes) :
              old_nodes[k].text_type = TEXT =>
                  PatternLoop(old_nodes[k].text,
                              CallExtractor(IF op.name = "split_nodes_image"
                                            THEN "extract_markdown_images"
                                            ELSE "extract_markdown_links",
                                            old_nodes[k].text),
                              <<>>, op.text_type).error = ""

\* split_nodes_link was given a text with two links of the same literal, the
\* first one standing in an image
C18_Witness ==
    /\ op.name = "split_nodes_link"
    /\ error = ""
    /\ OneTextNode
    /\ LET s == old_nodes[1].text
           ms == extract_markdown_links(s)
       IN  /\ Len(ms) >= 1
           /\ StartsWith(s, <<"!">> \o PatternMarkdown(ms[1][1], ms[1][2], LINK))

\* C19: a LINK node that split_nodes_link makes is not cut from behind a
\* "!": the TEXT node it puts directly before a LINK node never ends with
\* "!", also when the literal of the link stands earlier inside an image.
C19_LinkNotCutBehindBang ==
    (op.name = "split_nodes_link" /\ error = "" /\ OneTextNode) =>
        \A k \in 2..Len(nodes) :
            (nodes[k].text_type = LINK /\ nodes[k - 1].text_type = TEXT)
                => nodes[k - 1].text[Len(nodes[k - 1].text)] # "!"

\* C20: for a block classified as code that begins and ends with the fence,
\* the converter returns a pre ParentNode whose only child is a code
\* ParentNode whose only child is a LeafNode without tag; the value of the
\* leaf is the block without the opening fence and the newline after it and
\* without the closing fence, and no error is raised.
C20_CodeBlockVerbatim ==
    (/\ op.name = "block_to_html_node"
     /\ block_type = CODE_BLOCK
     /\ StartsWith(block, Fence)
     /\ EndsWith(block, Fence)) =>
        /\ error = ""
        /\ html_node # None
        /\ LET pre == html_node[1]
           IN  /\ pre.class = "ParentNode"
               /\ pre.tag = Some(<<"p", "r", "e">>)
               /\ Len(pre.children[1]) = 1
               /\ LET code == pre.children[1][1]
                  IN  /\ code.class = "ParentNode"
                      /\ code.tag = Some(<<"c", "o", "d", "e">>)
                      /\ Len(code.children[1]) = 1
                      /\ LET leaf == code.children[1][1]
                         IN  /\ leaf.class = "LeafNode"
                             /\ leaf.tag = None
                             /\ block = Fence \o Newline \o leaf.value[1] \o Fence

(***************************************************************************)
(* Code fences: the classifier against the converter.                      *)
(***************************************************************************)
\* the blocks before block k of bs are all converted without an error
ConvertedBefore(bs, k) == \A j \in 1..(k - 1) : block_to_html_node(bs[j]).error = ""

\* C21: block_to_block_type labels a block Code as soon as its first and its
\* last line begin with three backticks, while code_to_html_node wants the
\* block to end with three backticks; so a block of markdown_to_blocks that
\* is classified Code and does not end with the fence is not converted as a
\* paragraph: its conversion raises "invalid code block", and so does
\* markdown_to_html_node when no earlier block failed.  A Code block that
\* ends with the fence never raises that error.
C21_FenceMismatchRaises ==
    op.name = "markdown_to_html_node" =>
        \A k \in 1..Len(blocks) :
            /\ block_to_block_type(blocks[k]) = CODE_BLOCK
                  <=> (~IsHeading(blocks[k]) /\ IsCode(blocks[k]))
            /\ block_to_block_type(blocks[k]) = CODE_BLOCK =>
                  IF EndsWith(blocks[k], Fence)
                  THEN block_to_html_node(blocks[k]).error # InvalidCodeBlock
                  ELSE /\ block_to_html_node(blocks[k]) = Raise(InvalidCodeBlock)
                       /\ ConvertedBefore(blocks, k) =>
                             /\ error = InvalidCodeBlock
                             /\ html_node = None

\* a paragraph and then a fence closed by three backticks and a character:
\* the document is not converted
C21_Witness ==
    /\ op.name = "markdown_to_html_node"
    /\ Len(blocks) = 2
    /\ block_to_block_type(blocks[2]) = CODE_BLOCK
    /\ ~EndsWith(blocks[2], Fence)
    /\ error = InvalidCodeBlock
    /\ html_node = None

(***************************************************************************)
(* Quotes.                                                                 *)
(***************************************************************************)
\* the lines of the block, each without its first character and trimmed
RECURSIVE OneMarkerRemoved(_)
OneMarkerRemoved(lines) ==
    IF lines = <<>> THEN <<>>
    ELSE <<Strip(DropFirst(Head(lines), 1))>> \o OneMarkerRemoved(Tail(lines))

\* the state after a block handler returned r
Returned(r) ==
    /\ error = r.error
    /\ html_node = IF r.error # "" THEN None ELSE Some(r.value)

\* C22: for a block classified Quote the conversion never raises "invalid
\* quote block", and the result is the blockquote Parent of the inline split
\* of the lines joined by one space, each line without its one leading ">"
\* and then trimmed, so that ">> x" contributes "> x".
C22_QuoteOneMarkerRemoved ==
    (op.name = "block_to_html_node" /\ block_type = QUOTE) =>
        /\ error # InvalidQuoteBlock
        /\ Returned(ParentOf(<<"b", "l", "o", "c", "k", "q", "u", "o", "t", "e">>,
                             text_to_children(
                                 Join(OneMarkerRemoved(Split(block, Newline)), <<" ">>))))

(***************************************************************************)
(* Lists.                                                                  *)
(***************************************************************************)
\* the li Parent of a line without its first width characters
ItemNode(line, width) ==
    ParentOf(<<"l", "i">>, text_to_children(DropFirst(line, width)))

\* one li per line, in line order, or the error of the first line that has one
ItemNodes(lines, width) ==
    IF \E k \in 1..Len(lines) : ItemNode(lines[k], width).error # ""
    THEN ItemNode(lines[CHOOSE k \in 1..Len(lines) :
                            /\ ItemNode(lines[k], width).error # ""
                            /\ \A j \in 1..(k - 1) : ItemNode(lines[j], width).error = ""],
                  width)
    ELSE Return([k \in 1..Len(lines) |-> ItemNode(lines[k], width).value])

\* the marker "k. " of line k of an ordered list
Marker(k) == Decimal(k) \o <<".", " ">>

\* C23: the conversion of a list cuts a prefix of fixed width from every
\* line, 2 characters for an unordered and 3 for an ordered list, and wraps
\* the inline split of the rest in one li Parent per line, in line order,
\* inside ul or ol.  In an ordered list the content of the li of line k is
\* the text after the marker "k. " when k is at most 9; from line 10 on the
\* block is still an ordered list and the content begins with the part of the
\* marker after its third character (a space for "10. x").
C23_ListItemsFixedPrefix ==
    (op.name = "block_to_html_node" /\ block_type \in {ULIST, OLIST}) =>
        LET lines == Split(block, Newline)
        IN  /\ block_type = ULIST =>
                  Returned(ParentOf(<<"u", "l">>, ItemNodes(lines, 2)))
            /\ block_type = OLIST =>
                  /\ Returned(ParentOf(<<"o", "l">>, ItemNodes(lines, 3)))
                  /\ \A k \in 1..Len(lines) :
                        LET after == DropFirst(lines[k], Len(Marker(k)))
                        IN  /\ lines[k] = Marker(k) \o after
                            /\ DropFirst(lines[k], 3) = DropFirst(Marker(k), 3) \o after
                            /\ k <= 9 => DropFirst(lines[k], 3) = after
                            /\ k \in 10..99 => DropFirst(lines[k], 3) = <<" ">> \o after

\* the ordered list of ten items is converted, and the text of its tenth li
\* is " x"
C23_Witness ==
    /\ op.name = "block_to_html_node"
    /\ block_type = OLIST
    /\ Len(Split(block, Newline)) = 10
    /\ error = ""
    /\ html_node # None
    /\ html_node[1].children[1][10] = ItemNode(<<" ", "x">>, 0).value

(***************************************************************************)
(* Headings of a document.                                                 *)
(***************************************************************************)
\* C24: for a block of markdown_to_blocks that is classified Heading, the
\* conversion never raises "invalid heading level"; its level, the number of
\* leading "#", is in 1..6, and the result is the Parent h{level} of the
\* inline split of the block after its first level + 1 characters, later
\* lines included (or the error of that inline split).
C24_HeadingOfDocument ==
    op.name = "markdown_to_html_node" =>
        \A k \in 1..Len(blocks) :
            block_to_block_type(blocks[k]) = HEADING =>
                LET level == LeadingHashes(blocks[k])
                    expected == ParentOf(<<"h">> \o Decimal(level),
                                         text_to_children(DropFirst(blocks[k], level + 1)))
                IN  /\ level \in 1..6
                    /\ heading_to_html_node(blocks[k]).error # InvalidHeadingLevel
                    /\ block_to_html_node(blocks[k]) = expected
                    /\ error # InvalidHeadingLevel
                    /\ error = "" =>
                          /\ expected.error = ""
                          /\ html_node[1].children[1][k] = expected.value
                    /\ (ConvertedBefore(blocks, k) /\ expected.error # "") =>
                          error = expected.error

\* a document with a heading of level 6 that has a second line, and a
\* heading of level 2, both converted
C24_Witness ==
    /\ op.name = "markdown_to_html_node"
    /\ error = ""
    /\ Len(blocks) = 2
    /\ block_to_block_type(blocks[1]) = HEADING
    /\ Len(Split(blocks[1], Newline)) = 2
    /\ html_node[1].children[1][1].tag = Some(<<"h", "6">>)
    /\ html_node[1].children[1][2].tag = Some(<<"h", "2">>)

(***************************************************************************)
(* Attribute values in the serialization.                                  *)
(***************************************************************************)
\* the number of double quotes in a string
Quotes(s) == Cardinality({i \in 1..Len(s) : s[i] = "\""})

\* C25: the serialization escapes attribute values: in the text of a leaf
\* with a tag, made of a text node or directly, no double quote comes from
\* an attribute value (the url of a Link or Image included), so the only
\* double quotes are the two that enclose each value and those of the
\* leaf's own text.
C25_AttributeValueEscaped ==
    (/\ op.name = "to_html"
     /\ error = ""
     /\ html_node[1].class = "LeafNode"
     /\ html_node[1].tag \notin {None, Some(<<>>)}
     /\ html_node[1].props # None) =>
        Quotes(html[1]) = 2 * Len(html_node[1].props[1]) + Quotes(Str(html_node[1].value))

(***************************************************************************)
(* Delimiters inside a link or an image.                                   *)
(***************************************************************************)
\* the number of characters c in s
Chars(s, c) == Cardinality({i \in 1..Len(s) : s[i] = c})

\* the images and the links of the raw text
RawPatterns(t) == extract_markdown_images(t) \o extract_markdown_links(t)

\* one well-formed link or image is the only markup of t: every delimiter
\* character of t is in the text or the url of the pattern
OnlyMarkup(t) ==
    /\ Len(RawPatterns(t)) = 1
    /\ \A c \in {"_", "*", Backtick} :
          Chars(t, c) = Chars(RawPatterns(t)[1][1] \o RawPatterns(t)[1][2], c)

\* the delimiter characters of t are occurrences of the delimiter d, at
\* least one
OnlyDelimiter(t, d) ==
    /\ Occurrences(t, d) > 0
    /\ \A c \in {"_", "*", Backtick} :
          Chars(t, c) = IF c = d[1] THEN Len(d) * Occurrences(t, d) ELSE 0

\* C26: the delimiter stages run over the raw text before the images and the
\* links are extracted, so the text and the url of a pattern are not
\* protected: when a well-formed link or image is the only markup of a text
\* and its text and url hold an odd number of one delimiter ("_", a backtick
\* or "**"), text_to_textnodes raises the unmatched-delimiter error; when
\* they hold an even number, not zero, the pattern is cut into several nodes
\* and no LINK or IMAGE node with the url of the pattern is returned.
C26_PatternNotProtected ==
    (op.name = "text_to_textnodes" /\ OnlyMarkup(text)) =>
        \A d \in {BoldDelimiter, ItalicDelimiter, CodeDelimiter} :
            OnlyDelimiter(text, d) =>
                IF Occurrences(text, d) % 2 = 1
                THEN error = UnmatchedDelimiter /\ nodes = <<>>
                ELSE /\ error = ""
                     /\ Len(nodes) >= 2
                     /\ \A k \in 1..Len(nodes) :
                           nodes[k].text_type \in {LINK, IMAGE} =>
                               nodes[k].url # Url(RawPatterns(text)[1][2])

\* a link with one "_" in its url is refused
C26_Witness ==
    /\ op.name = "text_to_textnodes"
    /\ OnlyMarkup(text)
    /\ extract_markdown_links(text) = << <<(<<"a">>), <<"a", "_">> >> >>
    /\ error = UnmatchedDelimiter

\* an image with two "_" in its url is cut into nodes none of which is an image
C26_WitnessCut ==
    /\ op.name = "text_to_textnodes"
    /\ OnlyMarkup(text)
    /\ extract_markdown_images(text) = << <<(<<"a">>), <<"_", "_">> >> >>
    /\ error = ""
    /\ \A k \in 1..Len(nodes) : nodes[k].text_type # IMAGE

(***************************************************************************)
(* The classification does not depend on the order of its tests.           *)
(***************************************************************************)
\* the types other than Paragraph whose test the block passes
TypesMatched(b) ==
    {t \in {HEADING} : IsHeading(b)} \cup {t \in {CODE_BLOCK} : IsCode(b)}
        \cup {t \in {QUOTE} : IsQuote(b)} \cup {t \in {ULIST} : IsUnorderedList(b)}
        \cup {t \in {OLIST} : IsOrderedList(b)}

\* C27: the five tests of block_to_block_type (heading, code, quote,
\* unordered list, ordered list) are pairwise exclusive on every block: a
\* block passes at most one of them, so the type returned is the one whose
\* test it passes, whatever the order of the tests, and Paragraph when it
\* passes none; every block has exactly one type.
C27_TestsExclusive ==
    block_type # "none" =>
        /\ Cardinality(TypesMatched(block)) <= 1
        /\ \A t \in TypesMatched(block) : block_type = t
        /\ TypesMatched(block) = {} => block_type = PARAGRAPH
        /\ block_type \in BlockType

\* a block of three lines that passes the test of the unordered list, and
\* only that one
C27_Witness ==
    /\ block_type = ULIST
    /\ Len(Lines(block)) = 3
    /\ TypesMatched(block) = {ULIST}

====
